---- MODULE Spec2Model ----
(***************************************************************************)
(* The asset download subsystem of Tanin: the download queue, the scanner  *)
(* for missing assets, ad-hoc admission, the download worker thread and    *)
(* its event channel (src/src/app/download.rs).                            *)
(*                                                                         *)
(* Strings are sequences of one-character strings, so that trim, basename, *)
(* stem and the progress-line parser are computed and not assumed.         *)
(* Option<T> is a sequence of length 0 (None) or 1 (Some).                 *)
(* Percentages are integers: the f32 value in tenths of a percent.         *)
(***************************************************************************)
EXTENDS Integers, Sequences, FiniteSets, TLC

VARIABLES
    sounds,                 \* App.sounds: the loaded catalog records
    fs,                     \* the paths that exist on the filesystem
    yt_dlp_available,       \* App.yt_dlp_available
    download_queue,         \* App.download_queue: Vec<DownloadTask>
    download_rx,            \* App.download_rx: 0 (None) or the worker whose channel it receives
    active_download_index,  \* App.active_download_index: 0 (None) or a 1-based queue index
    add_sound_name,         \* the admission form
    add_sound_category,
    add_sound_icon,
    add_sound_url,
    add_sound_status,
    workers,                \* one record per thread started by spawn_download_task
    chan,                   \* chan[w]: the events sent on worker w's channel and not yet received
    emitted,                \* history: emitted[w], every event worker w passed to tx.send
    delivered,              \* history: delivered[w], every event the controller received from w
    lastApplied,            \* history: the last event application (worker's task, task changed)
    child,                  \* the yt-dlp subprocess of a worker, its two pipes and their readers
    custom_toml,            \* the user catalog extension sounds.toml, as the table it parses to
    lastAdd                 \* history: the number of add_custom_sound calls, the last one's arguments

vars ==
    <<sounds, fs, yt_dlp_available, download_queue, download_rx, active_download_index,
      add_sound_name, add_sound_category, add_sound_icon, add_sound_url, add_sound_status,
      workers, chan, emitted, delivered, lastApplied, child, custom_toml, lastAdd>>

catalogVars ==
    <<custom_toml, lastAdd>>

appVars ==
    <<download_queue, download_rx, active_download_index>>

formVars ==
    <<add_sound_name, add_sound_category, add_sound_icon, add_sound_url, add_sound_status>>

workerVars ==
    <<workers, chan, emitted, delivered, lastApplied, child>>

(***************************************************************************)
(* Bounds of the model.                                                    *)
(***************************************************************************)
MaxQueue == 3
MaxSpawns == 2
MaxChunks == 2
MaxLines == 1
MaxSounds == 2
MaxWrites == 3
PipeCap == 1
MaxPieces == 4
MaxAdds == 2

(***************************************************************************)
(* Options and strings.                                                    *)
(***************************************************************************)
None == <<>>

Some(x) == <<x>>

IsWhitespace(c) == c \in {" ", "\t", "\n"}

RECURSIVE TrimStart(_)
TrimStart(s) ==
    IF s # <<>> /\ IsWhitespace(Head(s)) THEN TrimStart(Tail(s)) ELSE s

RECURSIVE TrimEnd(_)
TrimEnd(s) ==
    IF s # <<>> /\ IsWhitespace(s[Len(s)])
    THEN TrimEnd(SubSeq(s, 1, Len(s) - 1))
    ELSE s

\* str::trim
Trim(s) == TrimEnd(TrimStart(s))

\* str::trim_end_matches('/')
RECURSIVE TrimSlashes(_)
TrimSlashes(s) ==
    IF s # <<>> /\ s[Len(s)] = "/" THEN TrimSlashes(SubSeq(s, 1, Len(s) - 1)) ELSE s

\* the components of a path: split at "/", empty and "." components dropped
RECURSIVE Components(_, _, _)
Components(p, cur, acc) ==
    LET flush == IF cur = <<>> \/ cur = <<".">> THEN acc ELSE Append(acc, cur)
    IN  IF p = <<>> THEN flush
        ELSE IF Head(p) = "/" THEN Components(Tail(p), <<>>, flush)
        ELSE Components(Tail(p), Append(cur, Head(p)), acc)

\* Path::file_name(): the last component; None when there is none or when the
\* path ends in ".."
FileNameOpt(p) ==
    LET cs == Components(p, <<>>, <<>>)
    IN  IF cs = <<>> THEN None
        ELSE IF cs[Len(cs)] = <<".", ".">> THEN None
        ELSE Some(cs[Len(cs)])

\* Path::file_name().unwrap_or_default()
FileName(p) ==
    IF FileNameOpt(p) = None THEN <<>> ELSE FileNameOpt(p)[1]

\* the index of the last "." of a name, 0 when it has none
RECURSIVE LastDot(_)
LastDot(f) ==
    IF f = <<>> THEN 0
    ELSE IF f[Len(f)] = "." THEN Len(f)
    ELSE LastDot(SubSeq(f, 1, Len(f) - 1))

\* Path::file_stem(): the file name up to its last ".", the whole name when it
\* has no "." or only a leading one
FileStemOpt(p) ==
    LET f == FileNameOpt(p)
    IN  IF f = None THEN None
        ELSE IF LastDot(f[1]) <= 1 THEN f
        ELSE Some(SubSeq(f[1], 1, LastDot(f[1]) - 1))

LowerCase ==
    <<"a", "b", "c", "d", "e", "f", "g", "h", "i", "j", "k", "l", "m", "n", "o", "p",
      "q", "r", "s", "t", "u", "v", "w", "x", "y", "z">>

UpperCase ==
    <<"A", "B", "C", "D", "E", "F", "G", "H", "I", "J", "K", "L", "M", "N", "O", "P",
      "Q", "R", "S", "T", "U", "V", "W", "X", "Y", "Z">>

Range(f) == { f[i] : i \in DOMAIN f }

Letters == Range(LowerCase) \cup Range(UpperCase)

Digits == {"0", "1", "2", "3", "4", "5", "6", "7", "8", "9"}

\* char::is_alphanumeric
IsAlphanumeric(c) == c \in Letters \cup Digits

\* PathBuf::join of a directory and a relative name
Join(dir, file) == dir \o <<"/">> \o file

(***************************************************************************)
(* DownloadStatus, DownloadTask, DownloadEvent.                            *)
(***************************************************************************)
Pending == [tag |-> "Pending", pct |-> 0, msg |-> ""]

Downloading(p) == [tag |-> "Downloading", pct |-> p, msg |-> ""]

Done == [tag |-> "Done", pct |-> 0, msg |-> ""]

Error(m) == [tag |-> "Error", pct |-> 0, msg |-> m]

DownloadTask(n, c, i, u, st, tf) ==
    [name |-> n, category |-> c, icon |-> i, url |-> u, status |-> st,
     target_filename |-> tf]

EvProgress(p) == [type |-> "Progress", pct |-> p, msg |-> "", payload |-> <<>>]

EvSuccess(n, c, path, i, u) ==
    [type |-> "Success", pct |-> 0, msg |-> "", payload |-> <<n, c, path, i, u>>]

EvError(m) == [type |-> "Error", pct |-> 0, msg |-> m, payload |-> <<>>]

IsTerminal(ev) == ev.type \in {"Success", "Error"}

(***************************************************************************)
(* The values the model draws its inputs from.                             *)
(***************************************************************************)
SoundsDir == <<"D">>

PathRain == <<"/", "s", "/", "r", ".", "o", "g", "g">>

PathWind == <<"w", ".", "m", "p", "3">>

PathFire == <<"/", "s", "/", "f", "/">>

PathSea == <<".", "/", "s", ".", "w", "a", "v">>

Sound(id, n, c, i, p, u) ==
    [id |-> id, name |-> n, category |-> c, icon |-> i, file_path |-> p, url |-> u]

SoundPool ==
    { Sound(<<"r">>, <<"R", " ", "r", "!">>, <<"n">>, <<"*">>, PathRain, Some(<<"u">>)),
      Sound(<<"w">>, <<"W">>, <<"n">>, <<"*">>, PathWind, Some(<<" ", "v", " ">>)),
      Sound(<<"f">>, <<"F">>, <<"h">>, <<>>, PathFire, Some(<<" ", "\t">>)),
      Sound(<<"s">>, <<"S">>, <<"h">>, <<"*">>, PathSea, None),
      Sound(<<"e">>, <<"E">>, <<"h">>, <<"*">>, PathSea, Some(<<>>)),
      Sound(<<"g">>, <<"G">>, <<"n">>, <<"+">>, PathFire, Some(<<"u">>)) }

PoolPaths == { s.file_path : s \in SoundPool }

\* String's Ord on the lower-case words the pool uses as categories and ids
RECURSIVE StrLess(_, _)
StrLess(a, b) ==
    IF b = <<>> THEN FALSE
    ELSE IF a = <<>> THEN TRUE
    ELSE IF Head(a) = Head(b) THEN StrLess(Tail(a), Tail(b))
    ELSE \E i, j \in 1..Len(LowerCase) :
            LowerCase[i] = Head(a) /\ LowerCase[j] = Head(b) /\ i < j

\* the order load_sounds_from_file sorts a catalog in: by category, then by id
SortsBefore(a, b) ==
    \/ StrLess(a.category, b.category)
    \/ a.category = b.category /\ StrLess(a.id, b.id)

\* the catalogs of at most MaxSounds records, as load_sounds_from_file returns them
Catalogs ==
    { c \in UNION { [1..n -> SoundPool] : n \in 0..MaxSounds } :
        \A i, j \in 1..Len(c) : i < j => SortsBefore(c[i], c[j]) }

FormNames == { <<>>, <<" ">>, <<" ", "M", "y", " ", "S", "!">> }

FormCategories == { <<>>, <<"\t">>, <<"b">> }

FormIcons == { <<>>, <<"+">> }

FormUrls == { <<>>, <<" ", " ">>, <<" ", "y", " ">> }

\* what a user may type into the four fields of the admission form
Forms == FormNames \X FormCategories \X FormIcons \X FormUrls

\* the ad-hoc task start_download leaves in the queue for the form
\* (" My S!", "b", "", " y ")
AdHocTask ==
    DownloadTask(<<" ", "M", "y", " ", "S", "!">>, <<"b">>, <<>>, <<"y">>, Pending, None)

(***************************************************************************)
(* check_and_download_missing_files                                        *)
(***************************************************************************)
\* Eligible with the URL tested for emptiness without trimming it
Eligible_NoTrim(sound) ==
    /\ sound.url # None
    /\ sound.file_path \notin fs
    /\ sound.url[1] # <<>>

\* the condition of the scanner's two nested ifs on one record
Eligible(sound) ==
    /\ sound.url # None
    /\ sound.file_path \notin fs
    /\ Trim(sound.url[1]) # <<>>

\* the task the scanner pushes for a record
ScannedTask(sound) ==
    DownloadTask(sound.name, sound.category, sound.icon, sound.url[1], Pending,
                 Some(FileName(sound.file_path)))

\* the for loop over self.sounds
RECURSIVE ScanLoop(_, _)
ScanLoop(ss, queue) ==
    IF ss = <<>> THEN queue
    ELSE ScanLoop(Tail(ss),
                  IF Eligible(Head(ss)) THEN Append(queue, ScannedTask(Head(ss)))
                  ELSE queue)

\* ScanResult without the early return on a missing yt-dlp
ScanResult_NoFlagCheck == ScanLoop(sounds, download_queue)

\* the queue the scanner leaves: untouched when yt-dlp is missing
ScanResult ==
    IF ~yt_dlp_available THEN download_queue ELSE ScanLoop(sounds, download_queue)

CheckAndDownloadMissingFiles ==
    /\ Len(ScanResult) <= MaxQueue
    /\ download_queue' = ScanResult
    /\ UNCHANGED <<sounds, fs, yt_dlp_available, download_rx, active_download_index>>
    /\ UNCHANGED catalogVars
    /\ UNCHANGED formVars
    /\ UNCHANGED workerVars

(***************************************************************************)
(* start_download                                                          *)
(***************************************************************************)
StatusRequired == "Error: All fields (except icon) are required."

StatusAdded == "Added to download queue."

\* FieldsMissing with the test of the URL left out
FieldsMissing_NoUrl ==
    \/ Trim(add_sound_name) = <<>>
    \/ Trim(add_sound_category) = <<>>

\* the validation at the head of start_download
FieldsMissing ==
    \/ Trim(add_sound_name) = <<>>
    \/ Trim(add_sound_category) = <<>>
    \/ Trim(add_sound_url) = <<>>

\* AdmittedTask with the URL taken as typed
AdmittedTask_RawUrl ==
    DownloadTask(add_sound_name, add_sound_category, add_sound_icon,
                 add_sound_url, Pending, None)

\* the task start_download pushes
AdmittedTask ==
    DownloadTask(add_sound_name, add_sound_category, add_sound_icon,
                 Trim(add_sound_url), Pending, None)

StartDownload ==
    /\ IF FieldsMissing
       THEN /\ add_sound_status' = StatusRequired
            /\ UNCHANGED <<download_queue, add_sound_name, add_sound_category,
                           add_sound_icon, add_sound_url>>
       ELSE /\ Len(download_queue) < MaxQueue
            /\ download_queue' = Append(download_queue, AdmittedTask)
            /\ add_sound_status' = StatusAdded
            /\ add_sound_name' = <<>>
            /\ add_sound_url' = <<>>
            /\ UNCHANGED <<add_sound_category, add_sound_icon>>
    /\ UNCHANGED <<sounds, fs, yt_dlp_available, download_rx, active_download_index>>
    /\ UNCHANGED catalogVars
    /\ UNCHANGED workerVars

\* the user fills in the admission form
SetFields(form) ==
    /\ add_sound_name' = form[1]
    /\ add_sound_category' = form[2]
    /\ add_sound_icon' = form[3]
    /\ add_sound_url' = form[4]
    /\ UNCHANGED <<sounds, fs, yt_dlp_available, add_sound_status>>
    /\ UNCHANGED catalogVars
    /\ UNCHANGED appVars
    /\ UNCHANGED workerVars

\* the host is probed for the extraction tool
SetYtDlpAvailable ==
    /\ yt_dlp_available' \in BOOLEAN \ {yt_dlp_available}
    /\ UNCHANGED <<sounds, fs>>
    /\ UNCHANGED catalogVars
    /\ UNCHANGED appVars
    /\ UNCHANGED formVars
    /\ UNCHANGED workerVars

(***************************************************************************)
(* spawn_download_task: the foreground part                                *)
(***************************************************************************)
\* the Receiver held in download_rx is dropped: what its channel still buffers is lost
DropReceiver(ch) ==
    IF download_rx = 0 THEN ch ELSE [ch EXCEPT ![download_rx] = <<>>]

\* the values the closure captures, and the thread's position
NewWorker(index) ==
    LET task == download_queue[index]
    IN  [index |-> index, name |-> task.name, category |-> task.category,
         icon |-> task.icon, url |-> task.url,
         target_filename |-> task.target_filename,
         yt_dlp_available |-> yt_dlp_available,
         pc |-> "dirs", safe_name |-> <<>>, total_size |-> 0, downloaded |-> 0,
         chunks |-> 0, lines |-> 0, exit |-> ""]

\* spawn_download_task keeping the Receiver it already holds: the new thread sends
\* on the channel the earlier one was given
SpawnDownloadTask_SharedChannel(index) ==
    /\ index \in 1..Len(download_queue)
    /\ Len(workers) < MaxSpawns
    /\ download_queue' = [download_queue EXCEPT ![index].status = Downloading(0)]
    /\ download_rx' = (IF download_rx = 0 THEN Len(workers) + 1 ELSE download_rx)
    /\ active_download_index' = index
    /\ workers' = Append(workers, NewWorker(index))
    /\ chan' = Append(chan, <<>>)
    /\ emitted' = Append(emitted, <<>>)
    /\ delivered' = Append(delivered, <<>>)
    /\ UNCHANGED <<sounds, fs, yt_dlp_available, lastApplied, child>>
    /\ UNCHANGED catalogVars
    /\ UNCHANGED formVars

SpawnDownloadTask(index) ==
    /\ index \in 1..Len(download_queue)
    /\ Len(workers) < MaxSpawns
    /\ download_queue' = [download_queue EXCEPT ![index].status = Downloading(0)]
    /\ download_rx' = Len(workers) + 1
    /\ active_download_index' = index
    /\ workers' = Append(workers, NewWorker(index))
    /\ chan' = Append(DropReceiver(chan), <<>>)
    /\ emitted' = Append(emitted, <<>>)
    /\ delivered' = Append(delivered, <<>>)
    /\ UNCHANGED <<sounds, fs, yt_dlp_available, lastApplied, child>>
    /\ UNCHANGED catalogVars
    /\ UNCHANGED formVars

(***************************************************************************)
(* spawn_download_task: the worker thread                                  *)
(***************************************************************************)
\* let _ = tx.send(ev): the event is queued while the controller still holds the
\* channel's Receiver; a send on a channel whose Receiver was dropped fails and
\* the failure is ignored
Send(w, ev) ==
    /\ emitted' = [emitted EXCEPT ![w] = Append(@, ev)]
    /\ chan' = IF download_rx = w THEN [chan EXCEPT ![w] = Append(@, ev)] ELSE chan

\* the thread moves on without sending
Goto(w, pc) ==
    /\ workers' = [workers EXCEPT ![w].pc = pc]
    /\ UNCHANGED <<chan, emitted>>

\* Fail with the return left out: the thread sends the Error and carries on
Fail_NoReturn(w, m) ==
    /\ UNCHANGED workers
    /\ Send(w, EvError(m))

\* the thread sends an Error event and returns
Fail(w, m) ==
    /\ workers' = [workers EXCEPT ![w].pc = "done"]
    /\ Send(w, EvError(m))

\* what no worker step changes
WorkerFrame ==
    /\ UNCHANGED <<sounds, yt_dlp_available, delivered, lastApplied, child>>
    /\ UNCHANGED catalogVars
    /\ UNCHANGED appVars
    /\ UNCHANGED formVars

\* Sanitize without the trim
Sanitize_NoTrim(name) ==
    [k \in 1..Len(name) |-> IF IsAlphanumeric(name[k]) THEN name[k] ELSE "_"]

\* the name sanitized: trimmed, every non-alphanumeric character replaced by "_"
Sanitize(name) ==
    [k \in 1..Len(Trim(name)) |->
        IF IsAlphanumeric(Trim(name)[k]) THEN Trim(name)[k] ELSE "_"]

ExtPlaceholder == <<".", "%", "(", "e", "x", "t", ")", "s">>

\* output_template: the file name given to yt-dlp -o, under sounds_dir
OutputTemplate(target_filename, name) ==
    IF target_filename # None
    THEN Join(SoundsDir,
              (IF FileStemOpt(target_filename[1]) = None
               THEN <<"u", "n", "k", "n", "o", "w", "n">>
               ELSE FileStemOpt(target_filename[1])[1]) \o ExtPlaceholder)
    ELSE Join(SoundsDir, Sanitize(name) \o ExtPlaceholder)

\* safe_name: output_template.file_stem().unwrap()
SafeName(target_filename, name) ==
    FileStemOpt(OutputTemplate(target_filename, name))[1]

\* ProjectDirs::from(..): None sends an Error and ends the thread
WorkerResolveDirs(w) ==
    /\ workers[w].pc = "dirs"
    /\ \/ Goto(w, "mkdir")
       \/ Fail(w, "Could not determine data directory.")
    /\ UNCHANGED fs
    /\ WorkerFrame

\* sounds_dir is there, or is created, or cannot be created; then the output
\* template and safe_name are computed
WorkerCreateDir(w) ==
    /\ workers[w].pc = "mkdir"
    /\ \/ /\ workers' = [workers EXCEPT
                ![w].pc = "dispatch",
                ![w].safe_name = SafeName(workers[w].target_filename, workers[w].name)]
          /\ UNCHANGED <<chan, emitted>>
       \/ Fail(w, "Error creating directory")
    /\ UNCHANGED fs
    /\ WorkerFrame

\* WorkerDispatch falling through to yt-dlp when no target filename is set
WorkerDispatch_TriesYtDlp(w) ==
    /\ workers[w].pc = "dispatch"
    /\ IF ~workers[w].yt_dlp_available /\ workers[w].target_filename # None
       THEN Goto(w, "http_call")
       ELSE Goto(w, "yt_spawn")
    /\ UNCHANGED fs
    /\ WorkerFrame

\* if !yt_dlp_available { if let Some(target_file) .. else Error } else yt-dlp
WorkerDispatch(w) ==
    /\ workers[w].pc = "dispatch"
    /\ IF ~workers[w].yt_dlp_available
       THEN IF workers[w].target_filename # None
            THEN Goto(w, "http_call")
            ELSE Fail(w, "yt-dlp is missing and no filename provided for direct download.")
       ELSE Goto(w, "yt_spawn")
    /\ UNCHANGED fs
    /\ WorkerFrame

(***************************************************************************)
(* The direct-HTTP strategy.                                               *)
(***************************************************************************)
\* the Content-Length header parsed, 0 for an absent or unparsable one. It is what
\* the server declares: the body read below may be shorter or longer
TotalSizes == {0, 1, 2}

\* the bytes one reader.read returns
ChunkSizes == {1}

\* FinalPath built from the output name, as the yt-dlp strategy builds its paths
FinalPath_FromSafeName(w) ==
    Join(SoundsDir, workers[w].safe_name \o <<".", "o", "p", "u", "s">>)

\* final_path = sounds_dir.join(target_file)
FinalPath(w) == Join(SoundsDir, workers[w].target_filename[1])

\* Percent as a fraction, the factor 100.0 left out
Percent_Fraction(downloaded, total_size) == (downloaded * 10) \div total_size

\* (downloaded as f32 / total_size as f32) * 100.0, in tenths of a percent
Percent(downloaded, total_size) == (downloaded * 1000) \div total_size

\* ureq::get(&url).call()
WorkerHttpCall(w) ==
    /\ workers[w].pc = "http_call"
    /\ \/ \E total \in TotalSizes :
             /\ workers' = [workers EXCEPT ![w].pc = "http_create",
                                           ![w].total_size = total]
             /\ UNCHANGED <<chan, emitted>>
       \/ Fail(w, "Direct download failed")
    /\ UNCHANGED fs
    /\ WorkerFrame

\* std::fs::File::create(&final_path)
WorkerHttpCreate(w) ==
    /\ workers[w].pc = "http_create"
    /\ \/ /\ Goto(w, "http_read")
          /\ fs' = fs \cup {FinalPath(w)}
       \/ /\ Fail(w, "Failed to create file")
          /\ UNCHANGED fs
    /\ WorkerFrame

\* WorkerHttpRead removing the partial file when the write or the read fails
WorkerHttpRead_CleansUp(w) ==
    /\ workers[w].pc = "http_read"
    /\ \/ /\ workers' = [workers EXCEPT ![w].pc = "done"]
          /\ Send(w, EvSuccess(workers[w].name, workers[w].category, FinalPath(w),
                               workers[w].icon, workers[w].url))
          /\ UNCHANGED fs
       \/ /\ workers[w].chunks < MaxChunks
          /\ \E n \in ChunkSizes :
                /\ workers' = [workers EXCEPT ![w].downloaded = @ + n,
                                              ![w].chunks = @ + 1]
                /\ IF workers[w].total_size > 0
                   THEN Send(w, EvProgress(Percent(workers[w].downloaded + n,
                                                   workers[w].total_size)))
                   ELSE UNCHANGED <<chan, emitted>>
          /\ UNCHANGED fs
       \/ /\ Fail(w, "Failed to write to file")
          /\ fs' = fs \ {FinalPath(w)}
       \/ /\ Fail(w, "Download failed")
          /\ fs' = fs \ {FinalPath(w)}
    /\ WorkerFrame

\* one turn of the read loop
WorkerHttpRead(w) ==
    /\ workers[w].pc = "http_read"
    /\ \/ \* Ok(0): the loop ends and Success is sent
          /\ workers' = [workers EXCEPT ![w].pc = "done"]
          /\ Send(w, EvSuccess(workers[w].name, workers[w].category, FinalPath(w),
                               workers[w].icon, workers[w].url))
       \/ \* Ok(n), written
          /\ workers[w].chunks < MaxChunks
          /\ \E n \in ChunkSizes :
                /\ workers' = [workers EXCEPT ![w].downloaded = @ + n,
                                              ![w].chunks = @ + 1]
                /\ IF workers[w].total_size > 0
                   THEN Send(w, EvProgress(Percent(workers[w].downloaded + n,
                                                   workers[w].total_size)))
                   ELSE UNCHANGED <<chan, emitted>>
       \/ \* Ok(n), write_all fails
          Fail(w, "Failed to write to file")
       \/ \* Err(e)
          Fail(w, "Download failed")
    /\ UNCHANGED fs
    /\ WorkerFrame

(***************************************************************************)
(* The external-tool strategy.                                             *)
(***************************************************************************)
Marker == <<"[", "d", "o", "w", "n", "l", "o", "a", "d", "]">>

\* str::contains
Contains(line, sub) ==
    \E k \in 1..(Len(line) - Len(sub) + 1) : SubSeq(line, k, k + Len(sub) - 1) = sub

\* str::find of a character: the first index, 0 for None
Find(line, c) ==
    IF \E k \in 1..Len(line) : line[k] = c
    THEN CHOOSE k \in 1..Len(line) : line[k] = c /\ \A j \in 1..(k - 1) : line[j] # c
    ELSE 0

\* RFind returning the first index
RFind_FirstMatch(line, c) ==
    IF \E k \in 1..Len(line) : line[k] = c
    THEN CHOOSE k \in 1..Len(line) : line[k] = c /\ \A j \in 1..(k - 1) : line[j] # c
    ELSE 0

\* str::rfind of a character: the last index, 0 for None
RFind(line, c) ==
    IF \E k \in 1..Len(line) : line[k] = c
    THEN CHOOSE k \in 1..Len(line) : line[k] = c /\ \A j \in (k + 1)..Len(line) : line[j] # c
    ELSE 0

DigitValue(c) ==
    CHOOSE v \in 0..9 : <<"0", "1", "2", "3", "4", "5", "6", "7", "8", "9">>[v + 1] = c

RECURSIVE Decimal(_)
Decimal(ds) ==
    IF ds = <<>> THEN 0 ELSE Decimal(SubSeq(ds, 1, Len(ds) - 1)) * 10 + DigitValue(ds[Len(ds)])

AllDigits(ds) == \A k \in 1..Len(ds) : ds[k] \in Digits

\* str::parse::<f32> on the tokens yt-dlp prints: an optional sign, digits with at
\* most one "." and at least one digit. None, or Some(value in tenths, truncated)
ParseF32(token) ==
    LET signed == token # <<>> /\ Head(token) \in {"+", "-"}
        body == IF signed THEN Tail(token) ELSE token
        dot == Find(body, ".")
        whole == IF dot = 0 THEN body ELSE SubSeq(body, 1, dot - 1)
        frac == IF dot = 0 THEN <<>> ELSE SubSeq(body, dot + 1, Len(body))
        tenths == Decimal(whole) * 10 + (IF frac = <<>> THEN 0 ELSE DigitValue(frac[1]))
    IN  IF AllDigits(whole) /\ AllDigits(frac) /\ Len(whole) + Len(frac) > 0
        THEN Some(IF signed /\ Head(token) = "-" THEN 0 - tenths ELSE tenths)
        ELSE None

\* the body of the stdout loop: the percentage a line yields, None when it yields none
ParseProgressLine(line) ==
    IF Contains(line, Marker) /\ Contains(line, <<"%">>)
    THEN LET pct_idx == Find(line, "%")
             slice == SubSeq(line, 1, pct_idx - 1)
             last_space == RFind(slice, " ")
         IN  IF last_space = 0 THEN None
             ELSE ParseF32(SubSeq(slice, last_space + 1, Len(slice)))
    ELSE None

\* the lines yt-dlp prints on its standard output
StdoutLines ==
    { Marker \o <<" ", " ", "4", "5", ".", "2", "%", " ", "o", "f", " ", "3", "M">>,
      Marker \o <<" ", "1", "0", "0", "%", " ", "o", "f">>,
      Marker \o <<" ", "D", "e", "s", "t">>,
      Marker \o <<" ", "D", "/", "a", " ", "1", "5", "0", "%", ".", "o">>,
      <<"[", "i", "n", "f", "o", "]", " ", "9", "%">>,
      Marker \o <<"n", "/", "a", "%">> }

\* Fallbacks with ogg tried first
Fallbacks_OggFirst ==
    << <<"o", "g", "g">>, <<"o", "p", "u", "s">>, <<"m", "4", "a">>, <<"m", "p", "3">>,
       <<"w", "a", "v">> >>

\* let fallbacks = ["opus", "m4a", "mp3", "wav", "ogg"]
Fallbacks ==
    << <<"o", "p", "u", "s">>, <<"m", "4", "a">>, <<"m", "p", "3">>, <<"w", "a", "v">>,
       <<"o", "g", "g">> >>

\* the files yt-dlp leaves under sounds_dir when it exits successfully
WrittenExtensions ==
    { {}, {<<"m", "p", "3">>}, {<<"o", "g", "g">>, <<"m", "4", "a">>}, {<<"w", "e", "b", "m">>} }

\* sounds_dir.join(format!("{}.{}", safe_name, ext))
Candidate(w, ext) ==
    Join(SoundsDir, workers[w].safe_name \o <<".">> \o ext)

\* the for loop over fallbacks: the first candidate that exists, None when none does
RECURSIVE FirstExisting(_, _, _)
FirstExisting(w, exts, files) ==
    IF exts = <<>> THEN None
    ELSE IF Candidate(w, Head(exts)) \in files THEN Some(Candidate(w, Head(exts)))
    ELSE FirstExisting(w, Tail(exts), files)

DownloadedPath(w, files) == FirstExisting(w, Fallbacks, files)

\* Command::new("yt-dlp")...spawn()
WorkerYtSpawn(w) ==
    /\ workers[w].pc = "yt_spawn"
    /\ \/ Goto(w, "yt_stdout")
       \/ Fail(w, "Failed to start yt-dlp")
    /\ UNCHANGED fs
    /\ WorkerFrame

\* one turn of the loop over the lines of the child's stdout, or its end
WorkerYtStdout(w) ==
    /\ workers[w].pc = "yt_stdout"
    /\ \/ /\ workers[w].lines < MaxLines
          /\ \E line \in StdoutLines :
                /\ workers' = [workers EXCEPT ![w].lines = @ + 1]
                /\ IF ParseProgressLine(line) # None
                   THEN Send(w, EvProgress(ParseProgressLine(line)[1]))
                   ELSE UNCHANGED <<chan, emitted>>
       \/ Goto(w, "yt_wait")
    /\ UNCHANGED fs
    /\ WorkerFrame

\* WorkerYtWait with an Error sent for a failed exit
WorkerYtWait_ReportsFailure(w) ==
    /\ workers[w].pc = "yt_wait"
    /\ workers' = [workers EXCEPT ![w].pc = "done", ![w].exit = "failure"]
    /\ Send(w, EvError("yt-dlp failed"))
    /\ UNCHANGED fs
    /\ WorkerFrame

\* child.wait() and what follows it
WorkerYtWait(w) ==
    /\ workers[w].pc = "yt_wait"
    /\ \/ \* Ok(status), status.success()
          \E exts \in WrittenExtensions :
             LET downloaded_path ==
                     DownloadedPath(w, fs \cup { Candidate(w, ext) : ext \in exts })
             IN  /\ fs' = fs \cup { Candidate(w, ext) : ext \in exts }
                 /\ workers' = [workers EXCEPT ![w].pc = "done", ![w].exit = "success"]
                 /\ IF downloaded_path # None
                    THEN Send(w, EvSuccess(workers[w].name, workers[w].category,
                                           downloaded_path[1], workers[w].icon,
                                           workers[w].url))
                    ELSE Send(w, EvError("Download success but file not found."))
       \/ \* Ok(status), not status.success(): nothing is sent
          /\ workers' = [workers EXCEPT ![w].pc = "done", ![w].exit = "failure"]
          /\ UNCHANGED <<chan, emitted>>
          /\ UNCHANGED fs
       \/ \* Err(e)
          /\ Fail(w, "Failed to wait on child")
          /\ UNCHANGED fs
    /\ WorkerFrame

(***************************************************************************)
(* The subprocess, its two pipes and their readers: what WorkerYtStdout    *)
(* abstracts, one pipe operation at a time.                                *)
(***************************************************************************)
\* a line that is not valid UTF-8: BufRead::lines yields Err for it
InvalidUtf8 == <<"?">>

\* what yt-dlp may write on its standard output
PipeStdoutLines ==
    { Marker \o <<" ", " ", "4", "5", ".", "2", "%", " ", "o", "f", " ", "3", "M">>,
      Marker \o <<" ", "D", "e", "s", "t">>,
      InvalidUtf8 }

\* what yt-dlp may write on its standard error
PipeStderrLines ==
    { Marker \o <<" ", "1", "0", "0", "%", " ", "o", "f">>,
      <<"E", "R", "R", "O", "R", ":", " ", "x">>,
      InvalidUtf8 }

\* the pieces the lines of the parser's domain are made of
Pieces ==
    { Marker, <<" ">>, <<"\t">>, <<"4", "5", ".", "2">>, <<"1", "0", "0">>, <<"%">>,
      <<"x">> }

RECURSIVE Concat(_)
Concat(ps) == IF ps = <<>> THEN <<>> ELSE Head(ps) \o Concat(Tail(ps))

\* "[download]  45.2% of 3.00MiB", "[download] 100% of 1.0MiB" and
\* "[download] Destination: a.opus"
ExampleLines ==
    { Marker \o <<" ", " ", "4", "5", ".", "2", "%", " ", "o", "f", " ", "3", ".", "0",
                  "0", "M", "i", "B">>,
      Marker \o <<" ", "1", "0", "0", "%", " ", "o", "f", " ", "1", ".", "0", "M", "i",
                  "B">>,
      Marker \o <<" ", "D", "e", "s", "t", "i", "n", "a", "t", "i", "o", "n", ":", " ",
                  "a", ".", "o", "p", "u", "s">> }

\* the lines of at most MaxPieces pieces, and the examples
ParseLines ==
    ExampleLines
    \cup { Concat(ps) : ps \in UNION { [1..n -> Pieces] : n \in 0..MaxPieces } }

\* the stdout loop's parse of each of these lines, computed once
ParsedStdout == [line \in PipeStdoutLines \cup ParseLines |-> ParseProgressLine(line)]

\* what no step of the subprocess or of a pipe reader changes
PipeFrame ==
    /\ UNCHANGED <<sounds, fs, yt_dlp_available, delivered, lastApplied>>
    /\ UNCHANGED catalogVars
    /\ UNCHANGED appVars
    /\ UNCHANGED formVars

\* the subprocess writes a line to stdout: it blocks while the pipe is full, and
\* the write fails at once when the read end was dropped
ChildWriteStdout ==
    /\ child.state = "running"
    /\ child.written < MaxWrites
    /\ child.out_open => Len(child.stdout) < PipeCap
    /\ \E line \in PipeStdoutLines :
          child' = [child EXCEPT !.written = @ + 1,
                                 !.stdout = IF child.out_open THEN Append(@, line) ELSE @]
    /\ UNCHANGED <<workers, chan, emitted>>
    /\ PipeFrame

\* the subprocess writes a line to stderr, likewise
ChildWriteStderr ==
    /\ child.state = "running"
    /\ child.written < MaxWrites
    /\ child.err_open => Len(child.stderr) < PipeCap
    /\ \E line \in PipeStderrLines :
          child' = [child EXCEPT !.written = @ + 1,
                                 !.stderr = IF child.err_open THEN Append(@, line) ELSE @]
    /\ UNCHANGED <<workers, chan, emitted>>
    /\ PipeFrame

\* the subprocess ends: the write ends of both pipes are closed
ChildExit ==
    /\ child.state = "running"
    /\ child' = [child EXCEPT !.state = "exited"]
    /\ UNCHANGED <<workers, chan, emitted>>
    /\ PipeFrame

\* StderrReader run after the stdout loop instead of beside it
StderrReader_AfterStdout ==
    /\ child.err_open
    /\ workers[child.worker].pc # "yt_stdout"
    /\ \/ /\ child.stderr # <<>>
          /\ child' = [child EXCEPT !.stderr = Tail(@),
                                     !.err_read = Append(@, Head(child.stderr))]
       \/ /\ child.stderr = <<>>
          /\ child.state = "exited"
          /\ child' = [child EXCEPT !.err_open = FALSE]
    /\ UNCHANGED <<workers, chan, emitted>>
    /\ PipeFrame

\* one turn of the thread that reads stderr: a line is read and passed to
\* err_tx.send, whose Receiver nobody reads; the loop ends, and the read end is
\* dropped, at the end of the stream or at a line that is not UTF-8
StderrReader ==
    /\ child.err_open
    /\ \/ /\ child.stderr # <<>>
          /\ Head(child.stderr) # InvalidUtf8
          /\ child' = [child EXCEPT !.stderr = Tail(@),
                                     !.err_read = Append(@, Head(child.stderr))]
       \/ /\ child.stderr # <<>>
          /\ Head(child.stderr) = InvalidUtf8
          /\ child' = [child EXCEPT !.stderr = <<>>, !.err_open = FALSE]
       \/ /\ child.stderr = <<>>
          /\ child.state = "exited"
          /\ child' = [child EXCEPT !.err_open = FALSE]
    /\ UNCHANGED <<workers, chan, emitted>>
    /\ PipeFrame

\* one turn of the worker's loop over the lines of stdout, read from the pipe;
\* the loop ends at the end of the stream or at a line that is not UTF-8
WorkerReadStdout(w) ==
    /\ child.worker = w
    /\ workers[w].pc = "yt_stdout"
    /\ \/ /\ child.stdout # <<>>
          /\ Head(child.stdout) # InvalidUtf8
          /\ child' = [child EXCEPT !.stdout = Tail(@), !.out_read = @ + 1]
          /\ workers' = [workers EXCEPT ![w].lines = @ + 1]
          /\ IF ParsedStdout[Head(child.stdout)] # None
             THEN Send(w, EvProgress(ParsedStdout[Head(child.stdout)][1]))
             ELSE UNCHANGED <<chan, emitted>>
       \/ /\ child.stdout # <<>>
          /\ Head(child.stdout) = InvalidUtf8
          /\ child' = [child EXCEPT !.stdout = <<>>, !.out_open = FALSE]
          /\ Goto(w, "yt_wait")
       \/ /\ child.stdout = <<>>
          /\ child.state = "exited"
          /\ child' = [child EXCEPT !.out_open = FALSE]
          /\ Goto(w, "yt_wait")
    /\ PipeFrame

(***************************************************************************)
(* The controller: it receives the events and applies them to the active   *)
(* task.                                                                   *)
(***************************************************************************)
\* the identifier add_custom_sound derives: name.to_lowercase().replace(" ", "_")
CustomId(name) ==
    [k \in 1..Len(name) |->
        IF name[k] = " " THEN "_"
        ELSE IF \E j \in 1..Len(UpperCase) : UpperCase[j] = name[k]
        THEN LowerCase[CHOOSE j \in 1..Len(UpperCase) : UpperCase[j] = name[k]]
        ELSE name[k]]

(***************************************************************************)
(* The user catalog extension: add_custom_sound and load_sounds_from_file  *)
(* (src/src/static_data.rs). The file is the toml::Table it parses to: an  *)
(* optional base_path string and, per category table, the entries by id.   *)
(***************************************************************************)
BasePathKey == <<"b", "a", "s", "e", "_", "p", "a", "t", "h">>

\* config_dir, the directory of sounds.toml
ConfigDir == <<"/", "c">>

\* fn default_icon
DefaultIcon == <<"~">>

\* the characters of the pools in the order of their code points
CharOrder ==
    <<"\t", " ", "!", "*", "+", ".", "/">> \o
    <<"0", "1", "2", "3", "4", "5", "6", "7", "8", "9">> \o UpperCase \o <<"_">> \o
    LowerCase \o <<"~">>

CharIndex(c) == CHOOSE k \in 1..Len(CharOrder) : CharOrder[k] = c

\* String::cmp is Less
RECURSIVE StringLess(_, _)
StringLess(a, b) ==
    IF b = <<>> THEN FALSE
    ELSE IF a = <<>> THEN TRUE
    ELSE IF Head(a) = Head(b) THEN StringLess(Tail(a), Tail(b))
    ELSE CharIndex(Head(a)) < CharIndex(Head(b))

\* a sound table of the file: name, file, icon and url may be absent
TomlEntry(category, id, name, file, icon, url) ==
    [category |-> category, id |-> id, name |-> name, file |-> file, icon |-> icon,
     url |-> url]

EmptyToml == [base_path |-> None, entries |-> {}]

\* str::replace of one character by another
Replace(str, from, to) ==
    [k \in 1..Len(str) |-> IF str[k] = from THEN to ELSE str[k]]

\* the table add_custom_sound writes back: the entry is inserted under its id in
\* the category's table, replacing an entry of that id; nothing is inserted when
\* the category's key holds a value that is not a table
AddCustomSound(root, name, category, file_path, icon, url) ==
    IF category = BasePathKey /\ root.base_path # None
    THEN root
    ELSE [root EXCEPT !.entries =
             { e \in @ : ~(e.category = category /\ e.id = CustomId(name)) }
             \cup {TomlEntry(category, CustomId(name), None, Some(file_path), Some(icon),
                             url)}]

\* Path::is_absolute
IsAbsolute(path) == path # <<>> /\ Head(path) = "/"

\* the Sound load_sounds_from_file builds for an entry
LoadedSound(root, e) ==
    LET name == IF e.name # None THEN e.name[1] ELSE Replace(e.id, "_", " ")
        filename == IF e.file # None THEN e.file[1]
                    ELSE CustomId(name) \o <<".", "o", "g", "g">>
        base == IF root.base_path = None THEN None ELSE Some(TrimSlashes(root.base_path[1]))
        file_path ==
            IF IsAbsolute(filename) THEN filename
            ELSE IF base # None /\ IsAbsolute(base[1]) THEN Join(base[1], filename)
            ELSE Join(Join(ConfigDir, <<"s", "o", "u", "n", "d", "s">>), filename)
    IN  Sound(e.id, name, e.category, IF e.icon # None THEN e.icon[1] ELSE DefaultIcon,
              file_path, e.url)

\* sounds.sort_by: by category, then by id
RECURSIVE SortSounds(_)
SortSounds(set) ==
    IF set = {} THEN <<>>
    ELSE LET first == CHOOSE x \in set : \A y \in set \ {x} :
                         \/ StringLess(x.category, y.category)
                         \/ x.category = y.category /\ StringLess(x.id, y.id)
         IN  <<first>> \o SortSounds(set \ {first})

\* load_sounds_from_file on the extension
LoadSoundsFromFile(root) ==
    SortSounds({ LoadedSound(root, e) : e \in { x \in root.entries : x.category # BasePathKey } })

\* a call of add_custom_sound
AddCustomSoundCall(args) ==
    /\ lastAdd.n < MaxAdds
    /\ custom_toml' = AddCustomSound(custom_toml, args.name, args.category, args.file_path,
                                     args.icon, args.url)
    /\ lastAdd' = [n |-> lastAdd.n + 1, args |-> args]
    /\ UNCHANGED <<sounds, fs, yt_dlp_available>>
    /\ UNCHANGED appVars
    /\ UNCHANGED formVars
    /\ UNCHANGED <<workers, chan, emitted, delivered, lastApplied, child>>

\* load_custom_sounds: the extension is loaded into the catalog
LoadCustomSounds ==
    /\ sounds' = LoadSoundsFromFile(custom_toml)
    /\ UNCHANGED <<fs, yt_dlp_available>>
    /\ UNCHANGED catalogVars
    /\ UNCHANGED appVars
    /\ UNCHANGED formVars
    /\ UNCHANGED <<workers, chan, emitted, delivered, lastApplied, child>>

\* the status an event gives the active task
AppliedStatus(ev) ==
    CASE ev.type = "Progress" -> Downloading(ev.pct)
      [] ev.type = "Success" -> Done
      [] ev.type = "Error" -> Error(ev.msg)

PollDownloadEvents ==
    /\ download_rx # 0
    /\ chan[download_rx] # <<>>
    /\ LET w == download_rx
           ev == Head(chan[w])
       IN  /\ chan' = [chan EXCEPT ![w] = Tail(@)]
           /\ delivered' = [delivered EXCEPT ![w] = Append(@, ev)]
           /\ download_queue' =
                 [download_queue EXCEPT ![active_download_index].status = AppliedStatus(ev)]
           /\ lastApplied' = [src |-> workers[w].index, dst |-> active_download_index]
           /\ sounds' =
                 IF ev.type = "Success"
                 THEN Append(sounds, Sound(CustomId(ev.payload[1]), ev.payload[1],
                                           ev.payload[2], ev.payload[4], ev.payload[3],
                                           Some(ev.payload[5])))
                 ELSE sounds
           /\ IF ev.type = "Success"
              THEN /\ custom_toml' =
                         AddCustomSound(custom_toml, ev.payload[1], ev.payload[2],
                                        ev.payload[3], ev.payload[4], Some(ev.payload[5]))
                   /\ lastAdd' =
                         [n |-> lastAdd.n + 1,
                          args |-> [name |-> ev.payload[1], category |-> ev.payload[2],
                                    file_path |-> ev.payload[3], icon |-> ev.payload[4],
                                    url |-> Some(ev.payload[5])]]
              ELSE UNCHANGED catalogVars
           /\ IF IsTerminal(ev)
              THEN \E close \in BOOLEAN :
                      /\ download_rx' = (IF close THEN 0 ELSE download_rx)
                      /\ active_download_index' = (IF close THEN 0 ELSE active_download_index)
              ELSE UNCHANGED <<download_rx, active_download_index>>
    /\ UNCHANGED <<fs, yt_dlp_available, workers, emitted, child>>
    /\ UNCHANGED formVars

(***************************************************************************)
(* The specifications.                                                     *)
(***************************************************************************)
\* no user catalog extension was written
NoCustomSounds ==
    /\ custom_toml = EmptyToml
    /\ lastAdd = [n |-> 0, args |-> <<>>]

\* no subprocess was started
NoChild ==
    [state |-> "none", worker |-> 0, written |-> 0, stdout |-> <<>>, stderr |-> <<>>,
     out_open |-> FALSE, err_open |-> FALSE, out_read |-> 0, err_read |-> <<>>]

NoWorkers ==
    /\ download_rx = 0
    /\ active_download_index = 0
    /\ workers = <<>>
    /\ chan = <<>>
    /\ emitted = <<>>
    /\ delivered = <<>>
    /\ lastApplied = [src |-> 0, dst |-> 0]
    /\ child = NoChild
    /\ NoCustomSounds

EmptyForm ==
    /\ add_sound_name = <<>>
    /\ add_sound_category = <<>>
    /\ add_sound_icon = <<>>
    /\ add_sound_url = <<>>
    /\ add_sound_status = ""

\* The download subsystem at work. The catalog holds a record without a usable
\* URL and one whose file is missing; the scanner has queued the second and the
\* user has added a sound by hand; no download was started yet.
Init ==
    /\ sounds \in { c \in Catalogs : Len(c) = 2 /\ c[1].id = <<"f">> /\ c[2].id = <<"r">> }
    /\ fs = {}
    /\ yt_dlp_available \in BOOLEAN
    /\ download_queue = <<ScannedTask(sounds[2]), AdHocTask>>
    /\ add_sound_name = <<>>
    /\ add_sound_category = AdHocTask.category
    /\ add_sound_icon = AdHocTask.icon
    /\ add_sound_url = <<>>
    /\ add_sound_status = StatusAdded
    /\ NoWorkers

Next ==
    \/ CheckAndDownloadMissingFiles
    \/ \E index \in 1..Len(download_queue) : SpawnDownloadTask(index)
    \/ \E w \in 1..Len(workers) : WorkerResolveDirs(w)
    \/ \E w \in 1..Len(workers) : WorkerCreateDir(w)
    \/ \E w \in 1..Len(workers) : WorkerDispatch(w)
    \/ \E w \in 1..Len(workers) : WorkerHttpCall(w)
    \/ \E w \in 1..Len(workers) : WorkerHttpCreate(w)
    \/ \E w \in 1..Len(workers) : WorkerHttpRead(w)
    \/ \E w \in 1..Len(workers) : WorkerYtSpawn(w)
    \/ \E w \in 1..Len(workers) : WorkerYtStdout(w)
    \/ \E w \in 1..Len(workers) : WorkerYtWait(w)
    \/ PollDownloadEvents

Spec == Init /\ [][Next]_vars

\* The scanner on every catalog of the pool, with any of the files present.
InitScan ==
    /\ sounds \in Catalogs
    /\ fs \in SUBSET PoolPaths
    /\ yt_dlp_available \in BOOLEAN
    /\ download_queue \in {<<>>, <<AdHocTask>>}
    /\ EmptyForm
    /\ NoWorkers

NextScan ==
    \/ CheckAndDownloadMissingFiles
    \/ SetYtDlpAvailable

SpecScan == InitScan /\ [][NextScan]_vars

\* the names a user may give a sound: spaces, punctuation, underscores, padding
NamePool ==
    { <<"a", " ", "b">>, <<"a", "!", "b">>, <<"a", "_", "b">>, <<" ", "a", " ", "b">>,
      <<"a", "b">>, <<"A", "1">>, <<"!">> }

\* the target filenames the scanner may derive; the empty one comes from a
\* file_path without a final component
TargetPool ==
    { <<"r", ".", "o", "g", "g">>, <<"a", ".", "b", ".", "m", "p", "3">>,
      <<".", "h", "i", "d">>, <<"n", "o", "e", "x", "t">>, <<"a", " ", "b", ".", "w">>,
      <<>> }

\* the tasks start_download and the scanner leave in the queue for them
NamedTasks ==
    { DownloadTask(n, <<"b">>, <<>>, <<"y">>, Pending, None) : n \in NamePool }
    \cup { DownloadTask(<<"a", " ", "b">>, <<"n">>, <<"*">>, <<"u">>, Pending, Some(t)) :
             t \in TargetPool }

\* The output name: two queued tasks of the pool, each started once or twice,
\* the threads followed up to the strategy selection.
InitNames ==
    /\ sounds = <<>>
    /\ fs = {}
    /\ yt_dlp_available = TRUE
    /\ download_queue \in { <<s, t>> : s, t \in NamedTasks }
    /\ EmptyForm
    /\ NoWorkers

NextNames ==
    \/ \E index \in 1..Len(download_queue) : SpawnDownloadTask(index)
    \/ \E w \in 1..Len(workers) : WorkerResolveDirs(w)
    \/ \E w \in 1..Len(workers) : WorkerCreateDir(w)

SpecNames == InitNames /\ [][NextNames]_vars

\* The subprocess and its pipes: the worker of the ad-hoc task has started
\* yt-dlp and stands at the head of its stdout loop, the stderr thread runs.
InitPipes ==
    /\ sounds = <<>>
    /\ fs = {}
    /\ yt_dlp_available = TRUE
    /\ download_queue = <<[AdHocTask EXCEPT !.status = Downloading(0)]>>
    /\ download_rx = 1
    /\ active_download_index = 1
    /\ EmptyForm
    /\ workers = <<[NewWorker(1) EXCEPT
                       !.pc = "yt_stdout",
                       !.safe_name = SafeName(AdHocTask.target_filename, AdHocTask.name)]>>
    /\ chan = <<<<>>>>
    /\ emitted = <<<<>>>>
    /\ delivered = <<<<>>>>
    /\ lastApplied = [src |-> 0, dst |-> 0]
    /\ NoCustomSounds
    /\ child = [NoChild EXCEPT !.state = "running", !.worker = 1,
                                !.out_open = TRUE, !.err_open = TRUE]

NextPipes ==
    \/ ChildWriteStdout
    \/ ChildWriteStderr
    \/ ChildExit
    \/ StderrReader
    \/ \E w \in 1..Len(workers) : WorkerReadStdout(w)

\* the two reader threads are scheduled; the subprocess owes nothing
SpecPipes ==
    /\ InitPipes
    /\ [][NextPipes]_vars
    /\ WF_vars(StderrReader)
    /\ WF_vars(\E w \in 1..Len(workers) : WorkerReadStdout(w))

\* The progress-line parser: yt-dlp has written one line of ParseLines and has
\* ended; the worker reads the line, then the end of the stream.
InitParse ==
    /\ sounds = <<>>
    /\ fs = {}
    /\ yt_dlp_available = TRUE
    /\ download_queue = <<[AdHocTask EXCEPT !.status = Downloading(0)]>>
    /\ download_rx = 1
    /\ active_download_index = 1
    /\ EmptyForm
    /\ workers = <<[NewWorker(1) EXCEPT
                       !.pc = "yt_stdout",
                       !.safe_name = SafeName(AdHocTask.target_filename, AdHocTask.name)]>>
    /\ chan = <<<<>>>>
    /\ emitted = <<<<>>>>
    /\ delivered = <<<<>>>>
    /\ lastApplied = [src |-> 0, dst |-> 0]
    /\ NoCustomSounds
    /\ \E line \in ParseLines :
          child = [NoChild EXCEPT !.state = "exited", !.worker = 1, !.written = 1,
                                  !.stdout = <<line>>, !.out_open = TRUE,
                                  !.err_open = TRUE]

NextParse ==
    \/ \E w \in 1..Len(workers) : WorkerReadStdout(w)
    \/ StderrReader

SpecParse == InitParse /\ [][NextParse]_vars

\* the extensions add_custom_sound may find: none yet, one it wrote, one with a
\* hand-written entry, one with a base_path
InitialTomls ==
    { EmptyToml,
      [base_path |-> None,
       entries |-> {TomlEntry(<<"n">>, <<"r", "a", "i", "n">>, None,
                              Some(<<"/", "d", "/", "r", ".", "o", "g", "g">>),
                              Some(<<"*">>), Some(<<"u">>))}],
      [base_path |-> None,
       entries |-> {TomlEntry(<<"n">>, <<"m", "y", "_", "s">>, Some(<<"M", "y", " ", "S">>),
                              Some(<<"m", ".", "o", "g", "g">>), None, None)}],
      [base_path |-> Some(<<"/", "b", "/">>),
       entries |-> {TomlEntry(<<"h">>, <<"f">>, None, None, Some(<<"+">>), None)}] }

\* the arguments of add_custom_sound
AddArgs ==
    [name : { <<"r", "a", "i", "n">>, <<"M", "y", " ", "S">>, <<"m", "y", "_", "s">>,
              <<"w">> },
     category : { <<"n">>, BasePathKey },
     file_path : { <<"/", "d", "/", "a", ".", "o", "g", "g">>, <<"a", ".", "o", "g", "g">> },
     icon : { <<"*">> },
     url : { None, Some(<<"u">>) }]

\* The catalog extension: sounds are added to it and it is loaded.
InitCatalog ==
    /\ custom_toml \in InitialTomls
    /\ lastAdd = [n |-> 0, args |-> <<>>]
    /\ sounds = LoadSoundsFromFile(custom_toml)
    /\ fs = {}
    /\ yt_dlp_available = TRUE
    /\ download_queue = <<>>
    /\ download_rx = 0
    /\ active_download_index = 0
    /\ EmptyForm
    /\ workers = <<>>
    /\ chan = <<>>
    /\ emitted = <<>>
    /\ delivered = <<>>
    /\ lastApplied = [src |-> 0, dst |-> 0]
    /\ child = NoChild

NextCatalog ==
    \/ \E args \in AddArgs : AddCustomSoundCall(args)
    \/ LoadCustomSounds

SpecCatalog == InitCatalog /\ [][NextCatalog]_vars

\* Admission with everything a user may type into the form.
InitAdmit ==
    /\ sounds = <<>>
    /\ fs = {}
    /\ yt_dlp_available \in BOOLEAN
    /\ download_queue = <<>>
    /\ EmptyForm
    /\ NoWorkers

NextAdmit ==
    \/ \E form \in Forms : SetFields(form)
    \/ StartDownload

SpecAdmit == InitAdmit /\ [][NextAdmit]_vars

(***************************************************************************)
(* The claims.                                                             *)
(***************************************************************************)
HasTerminal(events) == \E k \in 1..Len(events) : IsTerminal(events[k])

\* C1: every worker that has ended has sent a terminal event (Success or Error):
\* no worker ends silently.
C1_EveryWorkerEmitsTerminal ==
    \A w \in 1..Len(workers) : workers[w].pc = "done" => HasTerminal(emitted[w])

DownloadingTasks ==
    { i \in 1..Len(download_queue) : download_queue[i].status.tag = "Downloading" }

\* C2: at most one task of the queue is Downloading, and it is the task at the
\* active download index.
C2_AtMostOneDownloading ==
    /\ Cardinality(DownloadingTasks) <= 1
    /\ \A i \in DownloadingTasks : i = active_download_index

\* a step of a status along Pending -> Downloading(0) -> Downloading(p) -> Done | Error
StatusStep(old, new) ==
    \/ new = old
    \/ old.tag = "Pending" /\ new = Downloading(0)
    \/ old.tag = "Downloading" /\ new.tag \in {"Downloading", "Done", "Error"}

\* C3: every step leaves each task's status as it is or moves it one step along
\* Pending -> Downloading(0) -> Downloading(p) -> Done | Error; a Done or Error
\* status never changes again.
C3_StatusOnlyMovesForward ==
    [][\A i \in 1..Len(download_queue) :
          StatusStep(download_queue[i].status, download_queue'[i].status)]_vars

\* C4: in what a worker has sent, a terminal event is the last event: there is at
\* most one, nothing follows it and every Progress event precedes it.
C4_TerminalEventIsLast ==
    \A w \in 1..Len(workers) :
        \A k \in 1..Len(emitted[w]) :
            IsTerminal(emitted[w][k]) => k = Len(emitted[w])

C4_Witness ==
    \E w \in 1..Len(workers) :
        /\ workers[w].pc = "done"
        /\ Len(emitted[w]) >= 2
        /\ emitted[w][1].type = "Progress"
        /\ IsTerminal(emitted[w][Len(emitted[w])])

\* C5: every event a worker has sent was received by the controller or is still
\* queued for it, in the order sent: none is dropped or reordered.
C5_EveryEventDelivered ==
    \A w \in 1..Len(workers) : emitted[w] = delivered[w] \o chan[w]

\* C6: the last event the controller applied came from the worker of the task it
\* was applied to.
C6_EventAppliedToOwnTask ==
    lastApplied.src = lastApplied.dst

C6_Witness ==
    /\ Len(workers) = 2
    /\ workers[1].index # workers[2].index
    /\ emitted[1] # <<>>
    /\ delivered[2] # <<>>
    /\ lastApplied.dst = workers[2].index

\* a string with nothing but whitespace in it (the empty string too)
Blank(str) == \A k \in 1..Len(str) : str[k] \in {" ", "\t", "\n"}

\* the file names of the pool's paths, written out
Basename(path) ==
    CASE path = PathRain -> <<"r", ".", "o", "g", "g">>
      [] path = PathWind -> <<"w", ".", "m", "p", "3">>
      [] path = PathFire -> <<"f">>
      [] path = PathSea -> <<"s", ".", "w", "a", "v">>

\* the records the scanner is to queue: file missing, URL present and not blank
Wanted ==
    { i \in 1..Len(sounds) :
        /\ sounds[i].file_path \notin fs
        /\ Len(sounds[i].url) = 1
        /\ ~Blank(sounds[i].url[1]) }

\* what one run of the scanner appended
Appended == SubSeq(download_queue', Len(download_queue) + 1, Len(download_queue'))

\* C7: with the tool-capability flag true, a run of the scanner appends exactly one
\* Pending task per record whose file is missing and whose URL is present and not
\* blank, in catalog order, with the record's name, category, icon and URL and the
\* basename of its file path as target filename, and no task for any other record.
C7_ScannerQueuesTheMissing ==
    [][CheckAndDownloadMissingFiles /\ yt_dlp_available =>
          /\ Len(download_queue') = Len(download_queue) + Cardinality(Wanted)
          /\ \A i \in Wanted :
                Appended[Cardinality({j \in Wanted : j <= i})] =
                    [name |-> sounds[i].name, category |-> sounds[i].category,
                     icon |-> sounds[i].icon, url |-> sounds[i].url[1],
                     status |-> Pending,
                     target_filename |-> <<Basename(sounds[i].file_path)>>]]_vars

C7_Witness ==
    /\ yt_dlp_available
    /\ Len(sounds) = 2
    /\ Len(sounds[1].url) = 1
    /\ Blank(sounds[1].url[1])
    /\ sounds[2].file_path = PathWind
    /\ PathWind \notin fs
    /\ Len(download_queue) = 1
    /\ download_queue[1].name = sounds[2].name
    /\ download_queue[1].url = <<" ", "v", " ">>
    /\ download_queue[1].target_filename = <<<<"w", ".", "m", "p", "3">>>>

\* C8: a run of the scanner only appends: the tasks already queued keep their
\* fields and status, no worker is started, the active download index and the
\* receiving endpoint stay as they are; with the flag false the queue is unchanged.
C8_ScannerOnlyAppends ==
    [][CheckAndDownloadMissingFiles =>
          /\ Len(download_queue') >= Len(download_queue)
          /\ SubSeq(download_queue', 1, Len(download_queue)) = download_queue
          /\ UNCHANGED <<workers, chan, download_rx, active_download_index>>
          /\ (~yt_dlp_available => download_queue' = download_queue)]_vars

C8_Witness ==
    /\ Len(download_queue) = 3
    /\ download_queue[1].status.tag = "Done"
    /\ download_queue[2].status.tag = "Downloading"
    /\ download_queue[3].status.tag = "Pending"
    /\ download_queue[3].target_filename # None
    /\ download_rx # 0

\* C9: start_download with a blank name, category or URL reports the validation
\* error and leaves the queue as it is.
C9_BlankFieldRejected ==
    [][StartDownload /\ (Blank(add_sound_name) \/ Blank(add_sound_category)
                            \/ Blank(add_sound_url)) =>
          /\ add_sound_status' = StatusRequired
          /\ download_queue' = download_queue]_vars

C9_Witness ==
    /\ add_sound_status = StatusRequired
    /\ ~Blank(add_sound_name)
    /\ ~Blank(add_sound_category)
    /\ add_sound_url = <<" ", " ">>
    /\ Len(download_queue) = 1

\* t is str without the whitespace at its two ends
Trimmed(str, t) ==
    \E i \in 1..(Len(str) + 1), j \in 0..Len(str) :
        /\ t = SubSeq(str, i, j)
        /\ Blank(SubSeq(str, 1, i - 1))
        /\ Blank(SubSeq(str, j + 1, Len(str)))
        /\ t # <<>> => ~Blank(<<t[1]>>) /\ ~Blank(<<t[Len(t)]>>)

Valid ==
    ~Blank(add_sound_name) /\ ~Blank(add_sound_category) /\ ~Blank(add_sound_url)

\* C10 as claimed: start_download with valid fields appends one Pending task
\* without target filename carrying the name, category, icon and URL as supplied,
\* and clears the name, category, icon and URL fields.
C10_AsClaimed ==
    [][StartDownload /\ Valid =>
          /\ download_queue' =
                Append(download_queue,
                       [name |-> add_sound_name, category |-> add_sound_category,
                        icon |-> add_sound_icon, url |-> add_sound_url,
                        status |-> Pending, target_filename |-> <<>>])
          /\ add_sound_name' = <<>>
          /\ add_sound_category' = <<>>
          /\ add_sound_icon' = <<>>
          /\ add_sound_url' = <<>>]_vars

\* C10 (amended): start_download with valid fields appends exactly one Pending task
\* without target filename, carrying the name, category and icon as supplied and
\* the URL with the whitespace at its ends removed; it clears the name and URL
\* fields and leaves the category and icon fields as they are.
C10_AdmissionAppendsOne ==
    [][StartDownload /\ Valid =>
          /\ Len(download_queue') = Len(download_queue) + 1
          /\ SubSeq(download_queue', 1, Len(download_queue)) = download_queue
          /\ LET task == download_queue'[Len(download_queue')]
             IN  /\ task.name = add_sound_name
                 /\ task.category = add_sound_category
                 /\ task.icon = add_sound_icon
                 /\ Trimmed(add_sound_url, task.url)
                 /\ task.status = Pending
                 /\ task.target_filename = <<>>
          /\ add_sound_name' = <<>>
          /\ add_sound_url' = <<>>
          /\ UNCHANGED <<add_sound_category, add_sound_icon>>]_vars

C10_Witness ==
    /\ add_sound_status = StatusAdded
    /\ add_sound_name = <<>>
    /\ add_sound_url = <<>>
    /\ add_sound_category = <<"b">>
    /\ add_sound_icon = <<"+">>
    /\ Len(download_queue) = 2
    /\ download_queue[2].name = <<" ", "M", "y", " ", "S", "!">>
    /\ download_queue[2].url = <<"y">>
    /\ download_queue[2].icon = <<"+">>
    /\ download_queue[2].target_filename = None

(***************************************************************************)
(* The worker's two strategies.                                            *)
(***************************************************************************)
NoFilenameMessage == "yt-dlp is missing and no filename provided for direct download."

ProgressCount(w) ==
    Cardinality({ k \in 1..Len(emitted[w]) : emitted[w][k].type = "Progress" })

\* C12: in the direct-HTTP strategy every chunk written sends one Progress event
\* when the Content-Length is known, its percentage being bytes written so far
\* / total * 100 (here in tenths; 250, 500, 750 and 1000 bytes of 1000 give
\* 25.0, 50.0, 75.0, 100.0), and sends nothing when it is not known: such a
\* worker has sent as many Progress events as it wrote chunks, or none at all.
C12_HttpProgressPerChunk ==
    [][/\ \A w \in 1..Len(workers) :
             (workers[w].pc = "http_read" /\ workers'[w].chunks = workers[w].chunks + 1) =>
                IF workers[w].total_size > 0
                THEN \E pct \in 0..(1000 * MaxChunks) :
                        /\ pct * workers[w].total_size <= workers'[w].downloaded * 1000
                        /\ workers'[w].downloaded * 1000 < (pct + 1) * workers[w].total_size
                        /\ emitted'[w] = Append(emitted[w], EvProgress(pct))
                ELSE emitted'[w] = emitted[w]
       /\ \A w \in 1..Len(workers') :
             ~workers'[w].yt_dlp_available =>
                ProgressCount(w)' =
                   (IF workers'[w].total_size > 0 THEN workers'[w].chunks ELSE 0)
       /\ <<Percent(250, 1000), Percent(500, 1000), Percent(750, 1000),
            Percent(1000, 1000)>> = <<250, 500, 750, 1000>>]_vars

C12_Witness ==
    \E w, v \in 1..Len(workers) :
       /\ workers[w].total_size = 2
       /\ workers[w].pc = "done"
       /\ Len(emitted[w]) = 3
       /\ emitted[w][1] = EvProgress(500)
       /\ emitted[w][2] = EvProgress(1000)
       /\ emitted[w][3].type = "Success"
       /\ workers[v].total_size = 0
       /\ workers[v].chunks = 2
       /\ workers[v].pc = "done"
       /\ Len(emitted[v]) = 1
       /\ emitted[v][1].type = "Success"

\* C13: every Progress event a worker sends, in either strategy, carries a
\* percentage between 0 and 100 (0 and 1000 tenths), whatever the length of the
\* response body against the declared Content-Length and whatever line yt-dlp
\* prints.
C13_ProgressInRange ==
    \A w \in 1..Len(workers) : \A k \in 1..Len(emitted[w]) :
       emitted[w][k].type = "Progress" =>
          (0 <= emitted[w][k].pct /\ emitted[w][k].pct <= 1000)

NotFoundMessage == "Download success but file not found."

\* <storage directory>/<output name>.<ext> for worker w
OutputFile(w, ext) == SoundsDir \o <<"/">> \o workers[w].safe_name \o <<".">> \o ext

\* the Success event of worker w for a file
SuccessFor(w, path) ==
    EvSuccess(workers[w].name, workers[w].category, path, workers[w].icon, workers[w].url)

\* C14: when yt-dlp has exited successfully the worker sends Success with the
\* first of <output name>.opus, .m4a, .mp3, .wav, .ogg that exists, and the
\* Error "Download success but file not found." when none of the five exists;
\* a worker of the yt-dlp strategy has sent Success only if yt-dlp exited
\* successfully.
C14_FirstExistingFallback ==
    [][\A w \in 1..Len(workers) :
          /\ (workers[w].pc = "yt_wait" /\ workers'[w].exit = "success") =>
                LET Exists(ext) == OutputFile(w, ext) \in fs'
                    Sends(ev) == emitted'[w] = Append(emitted[w], ev)
                IN  IF Exists(<<"o", "p", "u", "s">>)
                       THEN Sends(SuccessFor(w, OutputFile(w, <<"o", "p", "u", "s">>)))
                    ELSE IF Exists(<<"m", "4", "a">>)
                       THEN Sends(SuccessFor(w, OutputFile(w, <<"m", "4", "a">>)))
                    ELSE IF Exists(<<"m", "p", "3">>)
                       THEN Sends(SuccessFor(w, OutputFile(w, <<"m", "p", "3">>)))
                    ELSE IF Exists(<<"w", "a", "v">>)
                       THEN Sends(SuccessFor(w, OutputFile(w, <<"w", "a", "v">>)))
                    ELSE IF Exists(<<"o", "g", "g">>)
                       THEN Sends(SuccessFor(w, OutputFile(w, <<"o", "g", "g">>)))
                    ELSE Sends(EvError(NotFoundMessage))
          /\ (workers'[w].yt_dlp_available
                /\ \E k \in 1..Len(emitted'[w]) : emitted'[w][k].type = "Success") =>
                workers'[w].exit = "success"]_vars

C14_Witness ==
    \E w \in 1..Len(workers) :
       /\ workers[w].exit = "success"
       /\ OutputFile(w, <<"o", "p", "u", "s">>) \notin fs
       /\ OutputFile(w, <<"m", "4", "a">>) \in fs
       /\ OutputFile(w, <<"o", "g", "g">>) \in fs
       /\ emitted[w][Len(emitted[w])] = SuccessFor(w, OutputFile(w, <<"m", "4", "a">>))

\* C15: a worker whose yt-dlp exited with a failure status has ended without
\* sending Success or Error, and while the controller still listens to that
\* worker its task is the active one and stays in Downloading.
C15_FailedExitIsSilent ==
    \A w \in 1..Len(workers) :
       workers[w].exit = "failure" =>
          /\ workers[w].pc = "done"
          /\ \A k \in 1..Len(emitted[w]) : ~IsTerminal(emitted[w][k])
          /\ download_rx = w =>
                /\ active_download_index = workers[w].index
                /\ download_queue[workers[w].index].status.tag = "Downloading"

C15_Witness ==
    \E w \in 1..Len(workers) :
       /\ workers[w].exit = "failure"
       /\ download_rx = w
       /\ chan[w] = <<>>
       /\ delivered[w] = <<EvProgress(452)>>
       /\ download_queue[workers[w].index].status = Downloading(452)

\* the number of events of a type worker w has sent, after the step
CountAfter(w, type) ==
    Cardinality({ k \in 1..Len(emitted'[w]) : emitted'[w][k].type = type })

\* C16: in the direct-HTTP strategy a failure of the request, of the file
\* creation, of a chunk write or of the body read sends an Error that names
\* the stage, as the only Error and with no Success, and ends the thread: the
\* step removes no file (the target file, once created, is still there; a
\* failed request or creation adds none), and a thread that has ended sends
\* nothing more.
C16_HttpFailureStops ==
    [][\A w \in 1..Len(workers) :
          /\ (/\ workers[w].pc \in {"http_call", "http_create", "http_read"}
              /\ emitted'[w] # emitted[w]
              /\ emitted'[w][Len(emitted'[w])].type = "Error") =>
                /\ workers'[w].pc = "done"
                /\ emitted'[w][Len(emitted'[w])].msg =
                      (CASE workers[w].pc = "http_call" -> "Direct download failed"
                         [] workers[w].pc = "http_create" -> "Failed to create file"
                         [] workers[w].pc = "http_read" ->
                               emitted'[w][Len(emitted'[w])].msg)
                /\ workers[w].pc = "http_read" =>
                      /\ emitted'[w][Len(emitted'[w])].msg
                            \in {"Failed to write to file", "Download failed"}
                      /\ (SoundsDir \o <<"/">> \o workers[w].target_filename[1]) \in fs'
                /\ fs' = fs
                /\ CountAfter(w, "Error") = 1
                /\ CountAfter(w, "Success") = 0
          /\ workers[w].pc = "done" =>
                (emitted'[w] = emitted[w] /\ workers'[w] = workers[w])]_vars

C16_Witness ==
    \E w \in 1..Len(workers) :
       /\ workers[w].pc = "done"
       /\ workers[w].downloaded = 1
       /\ emitted[w] = <<EvProgress(500), EvError("Download failed")>>
       /\ (SoundsDir \o <<"/">> \o workers[w].target_filename[1]) \in fs

\* worker w met no failure of the directory, the request, the file or the body
NoIoFailure(w) ==
    \A k \in 1..Len(emitted[w]) :
       emitted[w][k].type = "Error" =>
          emitted[w][k].msg \notin
             {"Could not determine data directory.", "Error creating directory",
              "Direct download failed", "Failed to create file",
              "Failed to write to file", "Download failed"}

\* worker w ran the direct-HTTP strategy to its end
RanDirectHttp(w) ==
    /\ ~workers[w].yt_dlp_available
    /\ workers[w].pc = "done"
    /\ NoIoFailure(w)

\* C17 as claimed: the ad-hoc task admitted by start_download, whose name holds
\* spaces and punctuation, run through the direct-HTTP strategy with no I/O
\* failure, ends in a single Success event whose path is the storage
\* directory joined with its target filename.
C17_AsClaimed ==
    \A w \in 1..Len(workers) :
       (RanDirectHttp(w) /\ download_queue[workers[w].index].name = AdHocTask.name) =>
          /\ Len(emitted[w]) = 1
          /\ emitted[w][1].type = "Success"
          /\ workers[w].target_filename # None
          /\ emitted[w][1].payload[3] =
                SoundsDir \o <<"/">> \o workers[w].target_filename[1]

\* C17: a task with a target filename (the scanner's), whose name holds spaces
\* and punctuation, run through the direct-HTTP strategy with no I/O failure
\* ends in a Success whose path is the storage directory joined with the
\* target filename verbatim, and when the response has no length header that
\* Success is the only event; a task without a target filename (every ad-hoc
\* task) ends in the single Error "no filename provided".
C17_HttpEndToEnd ==
    \A w \in 1..Len(workers) :
       RanDirectHttp(w) =>
          IF workers[w].target_filename # None
          THEN LET success ==
                     SuccessFor(w, SoundsDir \o <<"/">> \o workers[w].target_filename[1])
               IN  /\ emitted[w][Len(emitted[w])] = success
                   /\ workers[w].total_size = 0 => emitted[w] = <<success>>
          ELSE emitted[w] = <<EvError(NoFilenameMessage)>>

C17_Witness ==
    \E w \in 1..Len(workers) :
       /\ RanDirectHttp(w)
       /\ workers[w].name = <<"R", " ", "r", "!">>
       /\ workers[w].target_filename = Some(<<"r", ".", "o", "g", "g">>)
       /\ workers[w].total_size = 0
       /\ workers[w].chunks = MaxChunks
       /\ emitted[w] = <<SuccessFor(w, <<"D", "/", "r", ".", "o", "g", "g">>)>>

(***************************************************************************)
(* The output name.                                                        *)
(***************************************************************************)
\* worker w has computed its output name and stands at the strategy selection
HasOutputName(w) == workers[w].pc = "dispatch"

\* a file name without its extension: up to its last ".", a leading "." apart
StemOf(t) ==
    LET dots == { k \in 2..Len(t) : t[k] = "." }
    IN  IF dots = {} THEN t
        ELSE SubSeq(t, 1, (CHOOSE k \in dots : \A j \in dots : j <= k) - 1)

\* every character that is neither a letter nor a digit replaced by "_"
Underscored(name) ==
    [k \in 1..Len(name) |-> IF name[k] \in Letters \cup Digits THEN name[k] ELSE "_"]

\* C18 as claimed: the output name is the stem of the target filename when one
\* is set, and otherwise the task name with every non-alphanumeric character
\* replaced by an underscore.
C18_AsClaimed ==
    \A w \in 1..Len(workers) :
       HasOutputName(w) =>
          workers[w].safe_name =
             (IF workers[w].target_filename # None
              THEN StemOf(workers[w].target_filename[1])
              ELSE Underscored(workers[w].name))

\* C18: the output name is the stem of the target filename when one is set
\* ("unknown" when that filename is empty); otherwise it is the task name
\* with its leading and trailing whitespace removed and then every
\* non-alphanumeric character replaced by an underscore, so it consists only
\* of alphanumeric characters and underscores.
C18_OutputName ==
    \A w \in 1..Len(workers) :
       HasOutputName(w) =>
          IF workers[w].target_filename # None
          THEN workers[w].safe_name =
                  (IF workers[w].target_filename[1] = <<>>
                   THEN <<"u", "n", "k", "n", "o", "w", "n">>
                   ELSE StemOf(workers[w].target_filename[1]))
          ELSE /\ \E i, j \in 1..Len(workers[w].name) :
                     /\ ~IsWhitespace(workers[w].name[i])
                     /\ ~IsWhitespace(workers[w].name[j])
                     /\ \A k \in 1..Len(workers[w].name) :
                           (k < i \/ k > j) => IsWhitespace(workers[w].name[k])
                     /\ workers[w].safe_name = Underscored(SubSeq(workers[w].name, i, j))
               /\ \A k \in 1..Len(workers[w].safe_name) :
                     workers[w].safe_name[k] \in Letters \cup Digits \cup {"_"}

C18_Witness ==
    \E w, v \in 1..Len(workers) :
       /\ workers[w].name = <<" ", "a", " ", "b">>
       /\ workers[w].target_filename = None
       /\ workers[w].safe_name = <<"a", "_", "b">>
       /\ workers[v].target_filename = Some(<<"a", ".", "b", ".", "m", "p", "3">>)
       /\ workers[v].safe_name = <<"a", ".", "b">>

\* C19: two ad-hoc tasks admitted with different names never get the same
\* output name.
C19_DistinctNamesDistinctOutputs ==
    \A w, v \in 1..Len(workers) :
       (/\ HasOutputName(w) /\ HasOutputName(v)
        /\ workers[w].target_filename = None /\ workers[v].target_filename = None
        /\ workers[w].name # workers[v].name) =>
          workers[w].safe_name # workers[v].safe_name

(***************************************************************************)
(* The pipes of the subprocess.                                            *)
(***************************************************************************)
\* the subprocess cannot write to stderr: the pipe is full and its read end open
StderrBlocked ==
    /\ child.state = "running"
    /\ child.err_open
    /\ Len(child.stderr) = PipeCap

\* C20: stderr is read by a thread of its own beside the worker's stdout loop:
\* whenever the subprocess is blocked on a full stderr pipe it is unblocked
\* later, whatever it wrote to its two pipes and in whatever order; once the
\* subprocess has ended the worker leaves the stdout loop for the exit wait;
\* and the worker's events are Progress events of lines read from stdout only,
\* never of a line read from stderr.
C20_StderrDrained ==
    /\ StderrBlocked ~> ~StderrBlocked
    /\ (child.state = "exited") ~> (workers[1].pc = "yt_wait")
    /\ [](/\ Len(emitted[1]) <= child.out_read
          /\ \A k \in 1..Len(emitted[1]) : emitted[1][k] = EvProgress(452))

C20_Witness ==
    /\ child.state = "exited"
    /\ workers[1].pc = "yt_wait"
    /\ Len(child.err_read) = 2
    /\ child.err_read[1] = Marker \o <<" ", "1", "0", "0", "%", " ", "o", "f">>
    /\ child.out_read = 1
    /\ emitted[1] = <<EvProgress(452)>>

(***************************************************************************)
(* The progress-line parser.                                               *)
(***************************************************************************)
\* the index of the first "%" of a line, 0 when it has none
FirstPercent(line) ==
    IF \E k \in 1..Len(line) : line[k] = "%"
    THEN CHOOSE k \in 1..Len(line) : line[k] = "%" /\ \A j \in 1..(k - 1) : line[j] # "%"
    ELSE 0

HasMarker(line) ==
    \E k \in 1..Len(line) :
       k + 9 <= Len(line) /\ SubSeq(line, k, k + 9) = Marker

\* the token that ends at position p - 1 and starts after the last character of
\* delims before p, or at the head of the line
TokenBefore(line, p, delims) ==
    LET starts == { k \in 1..p : \A j \in k..(p - 1) : line[j] \notin delims }
    IN  SubSeq(line, CHOOSE k \in starts : \A j \in starts : k <= j, p - 1)

\* the step reads a line of stdout
ReadsLine == child'.out_read = child.out_read + 1

\* C21 as claimed: a line yields a Progress event exactly when it contains the
\* marker and a percent sign and the whitespace-delimited token immediately
\* before the percent sign parses as a number, and the event carries that number.
C21_AsClaimed ==
    [][ReadsLine =>
          LET line == Head(child.stdout)
              p == FirstPercent(line)
              token == TokenBefore(line, p, {" ", "\t"})
          IN  IF HasMarker(line) /\ p > 0 /\ ParseF32(token) # None
              THEN emitted'[1] = Append(emitted[1], EvProgress(ParseF32(token)[1]))
              ELSE emitted'[1] = emitted[1]]_vars

\* C21: a line yields a Progress event exactly when it contains the marker and
\* a percent sign, a space occurs before the first percent sign, and the text
\* between the last such space and that percent sign parses as a number; the
\* event carries that number (45.2 for "[download]  45.2% of 3.00MiB", 100 for
\* "[download] 100% of 1.0MiB"). Any other line yields no event and the loop
\* goes on.
C21_ProgressLineParser ==
    [][ReadsLine =>
          LET line == Head(child.stdout)
              p == FirstPercent(line)
              token == TokenBefore(line, p, {" "})
          IN  /\ IF /\ HasMarker(line)
                    /\ p > 0
                    /\ \E k \in 1..(p - 1) : line[k] = " "
                    /\ ParseF32(token) # None
                 THEN emitted'[1] = Append(emitted[1], EvProgress(ParseF32(token)[1]))
                 ELSE emitted'[1] = emitted[1]
              /\ workers'[1].pc = "yt_stdout"
              /\ line = Marker \o <<" ", " ", "4", "5", ".", "2", "%", " ", "o", "f", " ",
                                    "3", ".", "0", "0", "M", "i", "B">>
                    => emitted'[1] = <<EvProgress(452)>>
              /\ line = Marker \o <<" ", "1", "0", "0", "%", " ", "o", "f", " ", "1", ".",
                                    "0", "M", "i", "B">>
                    => emitted'[1] = <<EvProgress(1000)>>]_vars

C21_Witness ==
    /\ child.out_read = 1
    /\ workers[1].pc = "yt_wait"
    /\ emitted[1] = <<EvProgress(452)>>

(***************************************************************************)
(* The scanner run again.                                                  *)
(***************************************************************************)
\* C23: after any number of runs of the scanner the queue never holds two
\* tasks that are both Pending or Downloading and have the same target
\* filename.
C23_NoDuplicateTarget ==
    \A i, j \in 1..Len(download_queue) :
       (/\ i < j
        /\ download_queue[i].status.tag \in {"Pending", "Downloading"}
        /\ download_queue[j].status.tag \in {"Pending", "Downloading"}
        /\ download_queue[i].target_filename # None) =>
          download_queue[i].target_filename # download_queue[j].target_filename

(***************************************************************************)
(* The catalog extension.                                                  *)
(***************************************************************************)
\* C22: after add_custom_sound(name, category, file_path, icon, url), loading the
\* extension yields every record it yielded before and exactly one more, whose
\* name, category, file path, icon and URL are the arguments.
C22_AppendsAndRoundTrips ==
    [][lastAdd'.n = lastAdd.n + 1 =>
          LET before == Range(LoadSoundsFromFile(custom_toml))
              after == Range(LoadSoundsFromFile(custom_toml'))
              args == lastAdd'.args
          IN  /\ before \subseteq after
              /\ Cardinality(after) = Cardinality(before) + 1
              /\ \A s \in after \ before :
                    /\ s.name = args.name
                    /\ s.category = args.category
                    /\ s.file_path = args.file_path
                    /\ s.icon = args.icon
                    /\ s.url = args.url]_vars
====
